---- MODULE Spec2Model ----
(***************************************************************************)
(* Model of the UI manager of bitmovin-player-ui (src/ts/uimanager.ts):    *)
(* the UIManager (variant resolution, switching, ad context), the          *)
(* InternalUIInstanceManager (configure / release of one UI) and the       *)
(* PlayerWrapper (the relay that tracks event handlers).                   *)
(*                                                                         *)
(* Every action is one whole synchronous handler of the program.  The      *)
(* steps a handler performs are recorded, in order, in lastOp.log.         *)
(***************************************************************************)
EXTENDS Integers, Sequences, FiniteSets, TLC

\* ------------------------------------------------------------------ bounds
MaxVariants == 2      \* longest variant list handed to the constructor
MaxFree == 2          \* longest handler list of one event kind on a relay driven directly
MaxConfigs == 2       \* completed configure runs modelled per UI (a release allows another)
MaxMarkers == 2       \* longest list of timeline markers
MaxLabels == 3        \* subtitle labels created by one ActiveSubtitleManager
MaxPages == 2         \* pages of a SettingsPanel besides its root page
MaxDepth == 4         \* longest navigation stack a setActivePage call is made on

\* --------------------------------------------------------------- constants
NoUi == 0             \* currentUi undefined / nextUi undefined (indexOf = -1)
MgrRelay == 0         \* index of the managerPlayerWrapper among the relays
ContainerWidth == 800
DocumentWidth == 1024

Null == "null"
Events == {"sourceloaded", "play", "paused", "adstarted", "adfinished",
           "adskipped", "aderror", "playerresized", "viewmodechanged"}
AdEndEvents == {"adfinished", "adskipped", "aderror"}
ClientTypes == {"vast", "ima"}
\* the timestamp the real player gives its events, and Date.now() of a
\* later fireEventInUI
EventTime == "t1"
UiTime == "t2"
\* the conditions a variant can carry; Null is a variant without condition
Conds == {Null, "isAd", "isFullscreen", "isPlaying"}
AdConds == {Null, "isAd"}
\* the children of a UI's root container: one component "a" (an
\* AdClickOverlay), or the same component instance "b" twice ("b" subscribes
\* no handler on the player)
ChildLists == {<<"a">>, <<"b", "b">>}
\* metadata without title, description and markers ({}; an undefined
\* marker list is the empty list, as markers || [] makes it), the metadata
\* an application passes in the UI config (given FALSE: config.metadata
\* is absent), the source configs it loads, and the markers it adds
BlankMetadata == [title |-> Null, description |-> Null, markers |-> <<>>]
NoMetadata == [given |-> FALSE, title |-> Null, description |-> Null]
PassedMetadata ==
  {NoMetadata, [given |-> TRUE, title |-> Null, description |-> Null],
   [given |-> TRUE, title |-> "uiTitle", description |-> "uiText"]}
NoSourceConfig == [title |-> Null, description |-> Null]
SourceConfigs ==
  {NoSourceConfig, [title |-> "title1", description |-> "text1"],
   [title |-> "title2", description |-> Null]}
Markers == {"m1", "m2"}
\* cueExit returning null
NoLabel == 0
\* the subtitle cues of a track: two cues with the same start and text, one
\* whose start and text concatenate to the same string, and one unlike them
Cues ==
  {[start |-> 1, text |-> "2x", end |-> 5], [start |-> 1, text |-> "2x", end |-> 7],
   [start |-> 12, text |-> "x", end |-> 6], [start |-> 3, text |-> "y", end |-> 4]}

RECURSIVE SeqsUpTo(_, _)
SeqsUpTo(S, n) ==
  IF n = 0 THEN {<<>>}
  ELSE LET shorter == SeqsUpTo(S, n - 1)
       IN shorter \cup {Append(s, x) : s \in {t \in shorter : Len(t) = n - 1}, x \in S}

\* Object.assign({}, a, b) / { ...a, ...b }: b's properties overwrite a's
Assign(a, b) ==
  [k \in DOMAIN a \cup DOMAIN b |-> IF k \in DOMAIN b THEN b[k] ELSE a[k]]

VARIABLES
  phase,          \* "new" before the constructor ran, "live", "failed" (it threw)
  uiVariants,     \* this.uiVariants: the condition of each variant, in order
  children,       \* children[i]: the components in the root container of variant i's UI
  autoResolve,    \* config.autoUiVariantResolve
  listener,       \* what the subscriber of onUiVariantResolve does to the context
  source,         \* player.getSource() is set
  sourceConfig,   \* title and description of player.getSource()
  passedMetadata, \* config.metadata as the application wrote it (Null: absent)
  metadata,       \* the object this.config.metadata (and config.metadata, if passed)
  frames,         \* per UI: requestAnimationFrame callbacks of addUi not yet run
  notified,       \* per UI: dispatches of onConfigured so far (history)
  onConfigured,   \* per UI: the listeners subscribed to events.onConfigured, in order
  playing,        \* player.isPlaying()
  fullscreen,     \* player.getViewMode() === Fullscreen
  adStartedEvent, \* the closure variable adStartedEvent (NoEvent for null)
  currentUi,      \* this.currentUi as an index into uiInstanceManagers, or NoUi
  configured,     \* InternalUIInstanceManager.configured
  released,       \* InternalUIInstanceManager.released
  shown,          \* the UIContainer is shown (show() was called last)
  attached,       \* the UI's DOM element is in the container element
  walked,         \* configureControlsTree was entered, per UI (history)
  tables,         \* PlayerWrapper.eventHandlers, per relay (MgrRelay and one per UI)
  host,           \* the handlers subscribed on the real player, per event, in order
  activeSubtitleCueMap, \* ActiveSubtitleManager.activeSubtitleCueMap: id -> {event, label}
  overlayLabels,  \* the SubtitleLabel components in the SubtitleOverlay
  labelCount,     \* SubtitleLabel objects created so far
  activeCues,     \* the cues the player entered and has not exited (history)
  activePageIndex, \* SettingsPanel.activePageIndex
  navigationStack, \* SettingsPanel.navigationStack: the pages navigated to, in order
  lastOp          \* the last handler that ran, with what it did

vars == <<phase, uiVariants, children, autoResolve, listener, source, sourceConfig,
          passedMetadata, metadata, frames, notified, onConfigured, playing,
          fullscreen, adStartedEvent, currentUi, configured, released,
          shown, attached, walked, tables, host, activeSubtitleCueMap,
          overlayLabels, labelCount, activeCues, activePageIndex, navigationStack,
          lastOp>>

\* the variables of the SubtitleOverlay
subtitleVars == <<activeSubtitleCueMap, overlayLabels, labelCount, activeCues>>

\* the variables of the SettingsPanel
panelVars == <<activePageIndex, navigationStack>>

\* ------------------------------------------------------------- the snapshot
\* The operators below are the program's methods.  Each takes the program
\* state as one record st (the variables above, the log of the running handler
\* and the error it threw, if any) and returns the state it leaves.
Relays == 0..Len(uiVariants)
Uis == 1..Len(uiVariants)
NoError == "none"

\* a callback (a closure): who created it, which one, and which of the
\* closures of that kind it is (every configure creates new ones)
Callback(owner, name, gen) == [owner |-> owner, name |-> name, gen |-> gen]
NoCallback == Callback(NoUi, Null, 0)
\* a null event, and the empty object {}
NoEvent == [type |-> Null]
EmptyData == [k \in {} |-> Null]

\* what the running handler's call of UIManager.resolveUiVariant computed
NoResolution == [resolved |-> FALSE, context |-> EmptyData, ctx |-> EmptyData, selected |-> NoUi]

Snapshot ==
  [source |-> source, sourceConfig |-> sourceConfig, metadata |-> metadata,
   frames |-> frames, notified |-> notified, onConfigured |-> onConfigured,
   playing |-> playing, fullscreen |-> fullscreen,
   adStartedEvent |-> adStartedEvent, currentUi |-> currentUi,
   configured |-> configured, released |-> released, shown |-> shown,
   attached |-> attached, walked |-> walked, tables |-> tables, host |-> host,
   log |-> <<>>, error |-> NoError, res |-> NoResolution]

Step(name, ui) == [step |-> name, ui |-> ui, cb |-> NoCallback, data |-> EmptyData]
\* a call made on one component of a UI's tree
StepOn(name, ui, c) == [Step(name, ui) EXCEPT !.data = [component |-> c]]
Logged(st, entry) == [st EXCEPT !.log = Append(@, entry)]

\* ------------------------------------------------------------ ArrayUtils
\* ArrayUtils.remove(array, item): removes the first occurrence of item
RECURSIVE ArrayRemove(_, _)
ArrayRemove(array, item) ==
  IF array = <<>> THEN <<>>
  ELSE IF Head(array) = item THEN Tail(array)
  ELSE <<Head(array)>> \o ArrayRemove(Tail(array), item)

\* ------------------------------------------------------ the real player
\* player.on(eventType, callback) of the real player
HostOn(h, ev, cb) == [h EXCEPT ![ev] = Append(@, cb)]
\* player.off(eventType, callback) of the real player
HostOff(h, ev, cb) == [h EXCEPT ![ev] = ArrayRemove(@, cb)]
HostHas(h, ev, cb) == \E k \in 1..Len(h[ev]) : h[ev][k] = cb

\* --------------------------------------------------------- PlayerWrapper
\* wrapper.on that forwards to the player and records nothing
WrapperOnUntracked(st, r, ev, cb) == [st EXCEPT !.host = HostOn(@, ev, cb)]

\* wrapper.on of relays that record their callbacks in one table they all
\* share
WrapperOnShared(st, r, ev, cb) ==
  [st EXCEPT !.host = HostOn(@, ev, cb),
             !.tables = [q \in DOMAIN @ |-> [@[q] EXCEPT ![ev] = Append(@, cb)]]]

\* wrapper.on
WrapperOn(st, r, ev, cb) ==
  [st EXCEPT !.host = HostOn(@, ev, cb),
             !.tables[r][ev] = Append(@, cb)]

\* wrapper.off
WrapperOff(st, r, ev, cb) ==
  [st EXCEPT !.host = HostOff(@, ev, cb),
             !.tables[r][ev] = ArrayRemove(@, cb)]

\* the record of fireEventInUI in which the default values overwrite the data
PlayerEventForced(ev, data, now) ==
  Assign(IF data = NoEvent THEN EmptyData ELSE data,
         [timestamp |-> now, type |-> ev, uiSourced |-> TRUE])

\* the record fireEventInUI hands to the callbacks
PlayerEventData(ev, data, now) ==
  Assign([timestamp |-> now, type |-> ev, uiSourced |-> TRUE],
         IF data = NoEvent THEN EmptyData ELSE data)

\* the event kind the callbacks below subscribe and unsubscribe
ReentrantEvent == "adstarted"

\* what a callback does when it is called, for the callbacks that call the
\* relay they were handed to: "offSelf" unsubscribes itself, "offOther"
\* unsubscribes the callback "h1", "onNew" subscribes the callback "h2";
\* every other callback leaves the relay alone
CallbackBody(st, r, cb) ==
  CASE cb.name = "offSelf" -> WrapperOff(st, r, ReentrantEvent, cb)
    [] cb.name = "offOther" -> WrapperOff(st, r, ReentrantEvent, Callback(r, "h1", 1))
    [] cb.name = "onNew" -> WrapperOn(st, r, ReentrantEvent, Callback(r, "h2", 1))
    [] OTHER -> st

\* one callback called by fireEventInUI
Invoke(st, r, cb, eventData) ==
  CallbackBody(Logged(st, [step |-> "callback", ui |-> r, cb |-> cb, data |-> eventData]),
               r, cb)

\* the for-of loop of fireEventInUI over the live array, from index k on
RECURSIVE FireLoop(_, _, _, _, _)
FireLoop(st, r, ev, eventData, k) ==
  IF k > Len(st.tables[r][ev]) THEN st
  ELSE FireLoop(Invoke(st, r, st.tables[r][ev][k], eventData), r, ev, eventData, k + 1)

\* wrapper.fireEventInUI
FireEventInUI(st, r, ev, data, now) ==
  FireLoop(Logged(st, [Step("fireEventInUI", r) EXCEPT !.data = [type |-> ev]]),
           r, ev, PlayerEventData(ev, data, now), 1)

\* ClearLoop leaving the loop after the first callback
ClearFirst(h, ev, callbacks) ==
  IF callbacks = <<>> THEN h ELSE HostOff(h, ev, Head(callbacks))

\* the inner loop of clearEventHandlers: player.off for each callback of one event
RECURSIVE ClearLoop(_, _, _)
ClearLoop(h, ev, callbacks) ==
  IF callbacks = <<>> THEN h
  ELSE ClearLoop(HostOff(h, ev, Head(callbacks)), ev, Tail(callbacks))

\* the outer loop of clearEventHandlers over the event types of the table
RECURSIVE ClearEvents(_, _, _)
ClearEvents(h, table, evs) ==
  IF evs = {} THEN h
  ELSE LET ev == CHOOSE e \in evs : TRUE
       IN ClearEvents(ClearLoop(h, ev, table[ev]), table, evs \ {ev})

\* PlayerWrapper.clearEventHandlers
ClearEventHandlers(st, r) ==
  [st EXCEPT !.host = ClearEvents(@, st.tables[r], Events)]

\* ---------------------------------------------------------- the components
\* AdClickOverlay.configure(player, uimanager): the handlers a component
\* subscribes on the wrapped player it is given
ComponentConfigure(st, i, c) ==
  IF c # "a" THEN st
  ELSE LET gen == Len(st.tables[i]["adstarted"]) + 1
           started == Callback(i, "adStarted", gen)
           finished == Callback(i, "adFinished", gen)
       IN WrapperOn(WrapperOn(WrapperOn(WrapperOn(st,
            i, "adstarted", started),
            i, "adfinished", finished),
            i, "adskipped", finished),
            i, "aderror", finished)

\* UIUtils.traverseTree(root, visit): the root, then its children in order
TreeOf(i) == <<"root">> \o children[i]

\* ------------------------------------------------ InternalUIInstanceManager
\* Error('Circular reference in UI tree: ' + component.constructor.name)
CircularReference(c) == "Circular reference in UI tree: " \o c

\* ConfigureWalk without the check of configuredComponents
RECURSIVE ConfigureUnchecked(_, _, _, _)
ConfigureUnchecked(st, i, k, done) ==
  IF k > Len(TreeOf(i)) THEN st
  ELSE ConfigureUnchecked(
         ComponentConfigure(Logged(st, StepOn("configureComponent", i, TreeOf(i)[k])),
                            i, TreeOf(i)[k]),
         i, k + 1, Append(done, TreeOf(i)[k]))

\* the visitor of configureControlsTree applied to the components from
\* position k on; done is configuredComponents
RECURSIVE ConfigureWalk(_, _, _, _)
ConfigureWalk(st, i, k, done) ==
  IF k > Len(TreeOf(i)) THEN st
  ELSE LET c == TreeOf(i)[k]
       IN IF \E j \in 1..Len(done) : done[j] = c
          THEN [Logged(st, StepOn("circular", i, c)) EXCEPT
                  !.error = CircularReference(c)]
          ELSE ConfigureWalk(
                 ComponentConfigure(Logged(st, StepOn("configureComponent", i, c)), i, c),
                 i, k + 1, Append(done, c))

\* configureControlsTree
ConfigureControlsTree(st, i) ==
  ConfigureWalk([st EXCEPT !.walked[i] = TRUE], i, 1, <<>>)

\* configureControls
ConfigureControls(st, i) ==
  LET tree == ConfigureControlsTree(st, i)
  IN IF tree.error # NoError THEN tree
     ELSE [tree EXCEPT !.configured[i] = TRUE]

\* releaseControlsTree: release() of the component, then of its children
RECURSIVE ReleaseControlsTree(_, _, _)
ReleaseControlsTree(st, i, k) ==
  IF k > Len(TreeOf(i)) THEN st
  ELSE ReleaseControlsTree(Logged(st, StepOn("releaseComponent", i, TreeOf(i)[k])), i, k + 1)

\* releaseControls without the test of this.configured
ReleaseUnguarded(st, i) ==
  [ReleaseControlsTree(Logged(st, Step("onRelease", i)), i, 1)
     EXCEPT !.configured[i] = FALSE, !.released[i] = TRUE]

\* releaseControls
ReleaseControls(st, i) ==
  LET done == IF st.configured[i]
              THEN [ReleaseControlsTree(Logged(st, Step("onRelease", i)), i, 1)
                      EXCEPT !.configured[i] = FALSE]
              ELSE st
  IN [done EXCEPT !.released[i] = TRUE]

\* ------------------------------------------------------------- UIManager
\* addUi appending the DOM element before it configures the controls
AddUiAppendFirst(st, i, now) ==
  LET appended == [Logged(st, Step("append", i)) EXCEPT !.attached[i] = TRUE]
      conf == ConfigureControls(appended, i)
      fired == IF conf.source
               THEN FireEventInUI(conf, i, "sourceloaded", EmptyData, now)
               ELSE conf
  IN IF conf.error # NoError THEN conf ELSE [fired EXCEPT !.frames[i] = @ + 1]

\* addUi that never fires SourceLoaded in the UI
AddUiNoReplay(st, i, now) ==
  LET conf == ConfigureControls(st, i)
      appended == [Logged(conf, Step("append", i)) EXCEPT !.attached[i] = TRUE]
  IN IF conf.error # NoError THEN conf ELSE [appended EXCEPT !.frames[i] = @ + 1]

\* addUi
AddUi(st, i, now) ==
  LET conf == ConfigureControls(st, i)
      appended == [Logged(conf, Step("append", i)) EXCEPT !.attached[i] = TRUE]
      fired == IF appended.source
               THEN FireEventInUI(appended, i, "sourceloaded", EmptyData, now)
               ELSE appended
      requested == [fired EXCEPT !.frames[i] = @ + 1]
  IN IF conf.error # NoError THEN conf ELSE requested

\* EventDispatcher.dispatch of onConfigured: every subscribed listener is
\* called, in the order of subscription
RECURSIVE DispatchConfigured(_, _, _)
DispatchConfigured(st, i, k) ==
  IF k > Len(st.onConfigured[i]) THEN st
  ELSE DispatchConfigured(
         Logged(st, [Step("configuredListener", i) EXCEPT
                       !.data = [listener |-> st.onConfigured[i][k]]]),
         i, k + 1)

\* the callback addUi hands to requestAnimationFrame, when the browser runs it
FrameCallback(st, i) ==
  DispatchConfigured(
    [Logged(st, Step("onConfigured", i)) EXCEPT !.frames[i] = @ - 1,
                                                !.notified[i] = @ + 1],
    i, 1)

\* OnShow whose event handler closure relays nothing
OnShowSilent(st, kind, ctx, now) ==
  IF kind = "user" THEN Logged(st, Step("onShow", st.currentUi)) ELSE st

\* the onShow callback of a switch: "none", the caller's own ("user"), or the
\* closure the event handler passes ("relay": it relays the stored AdStarted)
OnShow(st, kind, ctx, now) ==
  CASE kind = "user" -> Logged(st, [Step("onShow", st.currentUi) EXCEPT !.data = ctx])
    [] kind = "relay" ->
         IF ctx.isAd
         THEN FireEventInUI(st, st.currentUi, "adstarted", st.adStartedEvent, now)
         ELSE st
    [] OTHER -> st

\* the body of switchToUiVariant that leaves the current UI shown
SwitchWithoutHide(st, nextUi, kind, ctx, now) ==
    LET assigned == [st EXCEPT !.currentUi = nextUi]
        added == IF ~assigned.configured[nextUi]
                 THEN AddUi(assigned, nextUi, now)
                 ELSE assigned
        called == OnShow(added, kind, ctx, now)
        shownSt == [Logged(called, Step("show", nextUi)) EXCEPT !.shown[nextUi] = TRUE]
    IN IF nextUi = NoUi THEN assigned
       ELSE IF added.error # NoError THEN added
       ELSE shownSt

\* the body of switchToUiVariant when uiVariantChanged
SwitchBody(st, nextUi, kind, ctx, now) ==
    LET hidden == IF st.currentUi # NoUi
                  THEN [Logged(st, Step("hide", st.currentUi))
                          EXCEPT !.shown[st.currentUi] = FALSE]
                  ELSE st
        assigned == [hidden EXCEPT !.currentUi = nextUi]
        added == IF ~assigned.configured[nextUi]
                 THEN AddUi(assigned, nextUi, now)
                 ELSE assigned
        called == OnShow(added, kind, ctx, now)
        shownSt == [Logged(called, Step("show", nextUi)) EXCEPT !.shown[nextUi] = TRUE]
    IN IF nextUi = NoUi THEN assigned
       ELSE IF added.error # NoError THEN added
       ELSE shownSt

\* switchToUiVariant without the test of uiVariantChanged
SwitchAlways(st, nextUi, kind, ctx, now) == SwitchBody(st, nextUi, kind, ctx, now)

\* switchToUiVariant that leaves everything as it is when there is no next UI
SwitchToExisting(st, nextUi, kind, ctx, now) ==
  IF nextUi = st.currentUi \/ nextUi = NoUi THEN st
  ELSE SwitchBody(st, nextUi, kind, ctx, now)

\* switchToUiVariant; nextUi is the index of the variant, NoUi when indexOf
\* finds none
SwitchToUiVariant(st, nextUi, kind, ctx, now) ==
  IF nextUi = st.currentUi THEN st
  ELSE SwitchBody(st, nextUi, kind, ctx, now)

\* a variant's condition applied to the context
Condition(cond, ctx) ==
  CASE cond = "isAd" -> ctx.isAd
    [] cond = "isFullscreen" -> ctx.isFullscreen
    [] cond = "isPlaying" -> ctx.isPlaying
    [] OTHER -> FALSE

\* the condition function throws on the context: "throwsInFullscreen" is a
\* condition that throws in fullscreen and returns false otherwise
Throws(cond, ctx) == cond = "throwsInFullscreen" /\ ctx.isFullscreen

\* the outcome of the selection loop left by an exception of a condition
Thrown == -1

\* what resolveUiVariant throws then: the condition's own exception
ConditionError == "Error thrown by the condition"

\* SelectFrom taking a condition that throws for one that does not accept
RECURSIVE SelectCatching(_, _, _)
SelectCatching(variants, ctx, k) ==
  IF k > Len(variants) THEN NoUi
  ELSE IF variants[k] = Null THEN k
  ELSE IF ~Throws(variants[k], ctx) /\ Condition(variants[k], ctx) = TRUE THEN k
  ELSE SelectCatching(variants, ctx, k + 1)

\* SelectFrom passing over the variants without condition
RECURSIVE SelectConditioned(_, _, _)
SelectConditioned(variants, ctx, k) ==
  IF k > Len(variants) THEN NoUi
  ELSE IF variants[k] # Null /\ Condition(variants[k], ctx) = TRUE THEN k
  ELSE SelectConditioned(variants, ctx, k + 1)

\* the selection loop of resolveUiVariant from position k on: the index of
\* the selected variant, NoUi for nextUiVariant = null
RECURSIVE SelectFrom(_, _, _)
SelectFrom(variants, ctx, k) ==
  IF k > Len(variants) THEN NoUi
  ELSE IF variants[k] = Null THEN k
  ELSE IF Throws(variants[k], ctx) THEN Thrown
  ELSE IF Condition(variants[k], ctx) = TRUE THEN k
  ELSE SelectFrom(variants, ctx, k + 1)

SelectVariant(variants, ctx) == SelectFrom(variants, ctx, 1)

\* defaultContext of resolveUiVariant
DefaultContext(st) ==
  [isAd |-> FALSE, adClientType |-> Null, isFullscreen |-> st.fullscreen,
   isMobile |-> FALSE, isPlaying |-> st.playing, width |-> ContainerWidth,
   documentWidth |-> DocumentWidth]

\* onUiVariantResolve.dispatch: what the subscriber does to the context
Dispatched(ctx) ==
  IF listener = "clearAd" THEN [ctx EXCEPT !.isAd = FALSE] ELSE ctx

\* switchingContext in which the live values overwrite the caller's
SwitchingLiveFirst(st, context) == Dispatched(Assign(context, DefaultContext(st)))

\* switchingContext of resolveUiVariant, as the conditions see it
SwitchingContext(st, context) == Dispatched(Assign(DefaultContext(st), context))

\* resolveUiVariant that switches without the test of uiVariantChanged
ResolveReshowing(st, context, kind, now) ==
  LET ctx == SwitchingContext(st, context)
      next == SelectVariant(uiVariants, ctx)
      noted == [Logged(st, Step("onUiVariantResolve", st.currentUi)) EXCEPT
                  !.res = [resolved |-> TRUE, context |-> context, ctx |-> ctx,
                           selected |-> next]]
  IN SwitchBody(noted, next, kind, ctx, now)

\* UIManager.resolveUiVariant(context, onShow)
ResolveUiVariant(st, context, kind, now) ==
  LET ctx == SwitchingContext(st, context)
      next == SelectVariant(uiVariants, ctx)
      noted == [Logged(st, Step("onUiVariantResolve", st.currentUi)) EXCEPT
                  !.res = [resolved |-> TRUE, context |-> context, ctx |-> ctx,
                           selected |-> next]]
  IN IF next = Thrown THEN [noted EXCEPT !.error = ConditionError]
     ELSE SwitchToUiVariant(noted, next, kind, ctx, now)

\* AdContext that never reports an ad
NoAdContext(stored) == [isAd |-> FALSE, adClientType |-> Null]

\* the context the closure resolveUiVariant(event) hands to
\* UIManager.resolveUiVariant
AdContext(stored) ==
  [isAd |-> stored # NoEvent,
   adClientType |-> IF stored # NoEvent THEN stored.clientType ELSE Null]

\* StoredAfter without the case of AdError
StoredAfterNoError(stored, event, linear) ==
  IF event = NoEvent THEN stored
  ELSE CASE event.type = "adstarted" -> event
         [] event.type \in {"adfinished", "adskipped"} -> NoEvent
         [] event.type = "sourceloaded" ->
              IF stored # NoEvent /\ ~linear THEN NoEvent ELSE stored
         [] OTHER -> stored

\* StoredAfter that does not ask the player for a linear ad on SourceLoaded
StoredAfterNoLinear(stored, event, linear) ==
  IF event = NoEvent THEN stored
  ELSE CASE event.type = "adstarted" -> event
         [] event.type \in AdEndEvents -> NoEvent
         [] event.type = "sourceloaded" -> NoEvent
         [] OTHER -> stored

\* the switch statement of the closure: the stored AdStarted event after
\* the event; linear is player.ads.isLinearAdActive()
StoredAfter(stored, event, linear) ==
  IF event = NoEvent THEN stored
  ELSE CASE event.type = "adstarted" -> event
         [] event.type \in AdEndEvents -> NoEvent
         [] event.type = "sourceloaded" ->
              IF stored # NoEvent /\ ~linear THEN NoEvent ELSE stored
         [] OTHER -> stored

\* the closure switching on its own, without the test of uiVariantChanged
ResolveClosureDirect(st, event, linear, now) ==
  LET kept == [st EXCEPT !.adStartedEvent = StoredAfter(@, event, linear)]
  IN ResolveReshowing(kept, AdContext(kept.adStartedEvent), "relay", now)

\* the closure resolveUiVariant(event) of the constructor
ResolveClosure(st, event, linear, now) ==
  LET kept == [st EXCEPT !.adStartedEvent = StoredAfter(@, event, linear)]
  IN ResolveUiVariant(kept, AdContext(kept.adStartedEvent), "relay", now)

\* a || b on titles and descriptions (Null is undefined)
OrElse(a, b) == IF a # Null THEN a ELSE b

\* the closure updateConfig of the constructor.  this.config and uiConfig
\* are shallow copies of config, so this.config.metadata and
\* uiConfig.metadata are the object config.metadata when the application
\* passed one; otherwise each is a fresh {}
MergeConfig(st) ==
  LET src == IF st.source THEN st.sourceConfig ELSE NoSourceConfig
      ui == IF passedMetadata.given THEN st.metadata ELSE BlankMetadata
  IN [st EXCEPT !.metadata =
        [title |-> OrElse(src.title, ui.title),
         description |-> OrElse(src.description, ui.description),
         markers |-> ui.markers]]

\* ArrayUtils.remove(array, item) returns the removed item, null if the
\* array does not hold it
ArrayRemoved(array, item) ==
  IF \E k \in 1..Len(array) : array[k] = item THEN item ELSE Null

\* addTimelineMarker(timelineMarker)
AddTimelineMarker(st, marker) ==
  Logged([st EXCEPT !.metadata.markers = Append(@, marker)], Step("onUpdated", NoUi))

\* removeTimelineMarker that dispatches onUpdated whatever it removed
RemoveNotifying(st, marker) ==
  Logged([st EXCEPT !.metadata.markers = ArrayRemove(@, marker)], Step("onUpdated", NoUi))

\* removeTimelineMarker(timelineMarker); what it returns is RemoveReturns
RemoveTimelineMarker(st, marker) ==
  LET removed == [st EXCEPT !.metadata.markers = ArrayRemove(@, marker)]
  IN IF ArrayRemoved(st.metadata.markers, marker) = marker
     THEN Logged(removed, Step("onUpdated", NoUi))
     ELSE removed

RemoveReturns(st, marker) == ArrayRemoved(st.metadata.markers, marker) = marker

UpdateConfigHandler == Callback(MgrRelay, "updateConfig", 1)
ResolveHandler == Callback(MgrRelay, "resolveUiVariant", 1)

\* the handler of SourceLoaded the constructor subscribes first:
\* updateConfig(), then config.events.onUpdated.dispatch
UpdateConfig(st) == Logged(MergeConfig(st), Step("onUpdated", NoUi))

\* VariantsError without the check of the position of the default
VariantsCountError(variants) ==
  IF Cardinality({k \in 1..Len(variants) : variants[k] = Null}) > 1
  THEN "Too many UIs without a condition"
  ELSE NoError

\* the check of the variants without condition in the constructor
VariantsError(variants) ==
  LET without == {k \in 1..Len(variants) : variants[k] = Null}
  IN IF Cardinality(without) > 1
     THEN "Too many UIs without a condition"
     ELSE IF Cardinality(without) > 0
             /\ (CHOOSE k \in without : \A j \in without : k <= j) # Len(variants)
     THEN "Invalid UI variant order"
     ELSE NoError

\* the subscriptions of the closure, in the order of the constructor
ResolveEvents ==
  <<"sourceloaded", "play", "paused", "adstarted", "adfinished", "adskipped",
    "aderror", "playerresized", "viewmodechanged">>

RECURSIVE SubscribeResolve(_, _)
SubscribeResolve(st, k) ==
  IF k > Len(ResolveEvents) THEN st
  ELSE SubscribeResolve(WrapperOn(st, MgrRelay, ResolveEvents[k], ResolveHandler), k + 1)

\* the constructor subscribing the closure whatever autoUiVariantResolve is
ConstructorListening(st, now) ==
  LET merged == MergeConfig(st)
      wrapped == WrapperOn(merged, MgrRelay, "sourceloaded", UpdateConfigHandler)
      err == VariantsError(uiVariants)
      listening == SubscribeResolve(wrapped, 1)
  IN IF err # NoError THEN [wrapped EXCEPT !.error = err]
     ELSE ResolveClosure(listening, NoEvent, FALSE, now)

\* the constructor of UIManager
Constructor(st, now) ==
  LET merged == MergeConfig(st)
      wrapped == WrapperOn(merged, MgrRelay, "sourceloaded", UpdateConfigHandler)
      err == VariantsError(uiVariants)
      listening == IF autoResolve THEN SubscribeResolve(wrapped, 1) ELSE wrapped
  IN IF err # NoError THEN [wrapped EXCEPT !.error = err]
     ELSE ResolveClosure(listening, NoEvent, FALSE, now)

\* the real player calls the handlers subscribed for the event, in the order
\* of subscription; a handler that throws ends the dispatch
RECURSIVE HostDispatch(_, _, _, _, _)
HostDispatch(st, subs, event, linear, now) ==
  IF subs = <<>> \/ st.error # NoError THEN st
  ELSE LET cb == Head(subs)
           after == IF cb = UpdateConfigHandler THEN UpdateConfig(st)
                    ELSE IF cb = ResolveHandler THEN ResolveClosure(st, event, linear, now)
                    ELSE st
       IN HostDispatch(after, Tail(subs), event, linear, now)

\* EventDispatcher.unsubscribeAll of onConfigured
UnsubscribeAll(st, i) == [st EXCEPT !.onConfigured[i] = <<>>]

\* UIInstanceManager.clearEventHandlers: the relay's, then unsubscribeAll on
\* every dispatcher of the instance manager
InstanceClearEventHandlers(st, i) == UnsubscribeAll(ClearEventHandlers(st, i), i)

\* releaseUi
ReleaseUi(st, i) ==
  LET controls == ReleaseControls(st, i)
      removed == [Logged(controls, Step("remove", i)) EXCEPT !.attached[i] = FALSE]
  IN InstanceClearEventHandlers(removed, i)

RECURSIVE ReleaseAll(_, _)
ReleaseAll(st, i) ==
  IF i > Len(uiVariants) THEN st
  ELSE ReleaseAll(ReleaseUi(st, i), i + 1)

\* UIManager.release that leaves the manager's own relay alone
ReleaseUisOnly(st) == ReleaseAll(st, 1)

\* UIManager.release
ReleaseManager(st) == ClearEventHandlers(ReleaseAll(st, 1), MgrRelay)

\* ---------------------------------------------------------------- actions
\* every completed configure run of a UI with an AdClickOverlay leaves one
\* more handler of AdFinished in the table of the UI's relay
Bounded(st) == \A i \in Uis : Len(st.tables[i]["adfinished"]) <= MaxConfigs

\* the UIManager object exists: its constructor returned
Alive == phase \in {"live", "released"}

Commit(st, op) ==
  /\ Bounded(st)
  /\ source' = st.source
  /\ sourceConfig' = st.sourceConfig
  /\ metadata' = st.metadata
  /\ frames' = st.frames
  /\ notified' = st.notified
  /\ onConfigured' = st.onConfigured
  /\ playing' = st.playing
  /\ fullscreen' = st.fullscreen
  /\ adStartedEvent' = st.adStartedEvent
  /\ currentUi' = st.currentUi
  /\ configured' = st.configured
  /\ released' = st.released
  /\ shown' = st.shown
  /\ attached' = st.attached
  /\ walked' = st.walked
  /\ tables' = st.tables
  /\ host' = st.host
  /\ lastOp' = [op EXCEPT !.prev = currentUi, !.stored = adStartedEvent,
                          !.error = st.error, !.log = st.log, !.res = st.res]
  /\ UNCHANGED <<uiVariants, children, autoResolve, passedMetadata>>
  /\ UNCHANGED subtitleVars
  /\ UNCHANGED panelVars

\* the record of the last handler: its inputs, currentUi (prev) and
\* adStartedEvent (stored) when it started, what it did and what it threw
Op(name) ==
  [op |-> name, event |-> NoEvent, handled |-> FALSE, target |-> NoUi, linear |-> FALSE,
   kind |-> "none", prev |-> NoUi, stored |-> NoEvent, error |-> NoError,
   log |-> <<>>, res |-> NoResolution, returned |-> FALSE,
   data |-> EmptyData, afterClear |-> FALSE, label |-> NoLabel]

\* new UIManager(player, uiVariants, config)
Construct ==
  /\ phase = "new"
  /\ LET st == Constructor(Snapshot, UiTime)
       IN /\ Commit(st, Op("construct"))
          /\ phase' = IF st.error = NoError THEN "live" ELSE "failed"
  /\ UNCHANGED listener

\* the real player fires an event: its state is already updated when the
\* handlers run
PlayerEvent(event, update, linear) ==
  /\ phase # "new"
  /\ LET st == HostDispatch(Assign(Snapshot, update), host[event.type], event, linear, UiTime)
       IN Commit(st, [Op("event") EXCEPT
                        !.event = event, !.linear = linear,
                        !.handled = HostHas(host, event.type, ResolveHandler)])
  /\ UNCHANGED <<phase, listener>>

Plain(type) == [type |-> type, timestamp |-> EventTime]

SourceLoaded ==
  \E linear \in BOOLEAN :
    PlayerEvent(Plain("sourceloaded"), [source |-> TRUE], linear)

Play == PlayerEvent(Plain("play"), [playing |-> TRUE], FALSE)

Paused == PlayerEvent(Plain("paused"), [playing |-> FALSE], FALSE)

AdStarted ==
  \E c \in ClientTypes :
    PlayerEvent([type |-> "adstarted", timestamp |-> EventTime, clientType |-> c],
                EmptyData, FALSE)

AdEnded ==
  \E type \in AdEndEvents : PlayerEvent(Plain(type), EmptyData, FALSE)

ViewModeChanged ==
  PlayerEvent(Plain("viewmodechanged"), [fullscreen |-> ~fullscreen], FALSE)

\* the contexts a caller of resolveUiVariant passes
AdOverrides == {EmptyData, [isAd |-> TRUE, adClientType |-> "vast"]}
Overrides == AdOverrides \cup {[isFullscreen |-> TRUE], [isPlaying |-> FALSE]}

\* uiManager.switchToUiVariant(uiVariant, onShow) called by the application
SwitchTo ==
  /\ Alive
  /\ \E target \in {NoUi} \cup Uis, kind \in {"none", "user"} :
       Commit(SwitchToUiVariant(Snapshot, target, kind, EmptyData, UiTime),
              [Op("switch") EXCEPT !.target = target, !.kind = kind])
  /\ UNCHANGED <<phase, listener>>

\* uiManager.resolveUiVariant(context, onShow) called by the application
ResolveWith(contexts) ==
  /\ Alive
  /\ \E context \in contexts :
       Commit(ResolveUiVariant(Snapshot, context, "user", UiTime),
              [Op("resolve") EXCEPT !.kind = "user"])
  /\ UNCHANGED <<phase, listener>>

Resolve == ResolveWith(AdOverrides)

ResolveContext == ResolveWith(Overrides)

\* uiManager.release() called by the application
Release ==
  /\ Alive
  /\ Commit(ReleaseManager(Snapshot), Op("release"))
  /\ phase' = "released"
  /\ UNCHANGED listener

\* player.load(sourceConfig): the player fires SourceLoaded for the new source
Load ==
  \E config \in SourceConfigs :
    PlayerEvent(Plain("sourceloaded"), [source |-> TRUE, sourceConfig |-> config], FALSE)

\* uiManager.addTimelineMarker(marker) called by the application
AddMarker ==
  /\ Alive
  /\ Len(metadata.markers) < MaxMarkers
  /\ \E marker \in Markers :
       Commit(AddTimelineMarker(Snapshot, marker),
              [Op("addMarker") EXCEPT !.kind = marker])
  /\ UNCHANGED <<phase, listener>>

\* uiManager.removeTimelineMarker(marker) called by the application
RemoveMarker ==
  /\ Alive
  /\ \E marker \in Markers :
       Commit(RemoveTimelineMarker(Snapshot, marker),
              [Op("removeMarker") EXCEPT !.kind = marker,
                                         !.returned = RemoveReturns(Snapshot, marker)])
  /\ UNCHANGED <<phase, listener>>

\* the browser runs one requestAnimationFrame callback of addUi
Frame ==
  /\ \E i \in Uis :
       /\ frames[i] > 0
       /\ Commit(FrameCallback(Snapshot, i), [Op("frame") EXCEPT !.target = i])
  /\ UNCHANGED <<phase, listener>>

\* the listeners of onConfigured
ConfiguredListeners == {"c1", "c2"}

\* uiInstanceManager.onConfigured.subscribe(listener), called by code that
\* was handed the instance manager when the UI was configured
SubscribeConfigured ==
  /\ \E i \in Uis, l \in ConfiguredListeners :
       /\ walked[i]
       /\ \A k \in 1..Len(onConfigured[i]) : onConfigured[i][k] # l
       /\ Commit([Snapshot EXCEPT !.onConfigured[i] = Append(@, l)],
                 [Op("subscribeConfigured") EXCEPT !.target = i, !.kind = l])
  /\ UNCHANGED <<phase, listener>>

\* uiManager.onUiVariantResolve.subscribe(handler) called by the application
Subscribe ==
  /\ phase = "live"
  /\ listener = "none"
  /\ listener' = "clearAd"
  /\ lastOp' = [Op("subscribe") EXCEPT !.prev = currentUi, !.stored = adStartedEvent]
  /\ UNCHANGED <<phase, uiVariants, children, autoResolve, source, sourceConfig,
                 passedMetadata, metadata, frames, notified, onConfigured, playing,
                 fullscreen, adStartedEvent, currentUi, configured, released, shown,
                 attached, walked, tables, host>>
  /\ UNCHANGED subtitleVars
  /\ UNCHANGED panelVars

\* the state before the constructor runs, for the variant lists over conds,
\* the component trees over lists and the player with or without a source
\* new ActiveSubtitleManager() in a SubtitleOverlay without labels
NoSubtitles ==
  /\ activeSubtitleCueMap = EmptyData
  /\ overlayLabels = {}
  /\ labelCount = 0
  /\ activeCues = {}

\* new SettingsPanel(config): the root page is active, nothing navigated
NoNavigation ==
  /\ activePageIndex = 0
  /\ navigationStack = <<>>

InitManager(conds, lists, sources, autos, passed) ==
  /\ phase = "new"
  /\ uiVariants \in SeqsUpTo(conds, MaxVariants)
  /\ children \in [1..Len(uiVariants) -> lists]
  /\ autoResolve \in autos
  /\ listener = "none"
  /\ source \in sources
  /\ playing = FALSE
  /\ fullscreen = FALSE
  /\ adStartedEvent = NoEvent
  /\ currentUi = NoUi
  /\ configured = [i \in 1..Len(uiVariants) |-> FALSE]
  /\ released = [i \in 1..Len(uiVariants) |-> FALSE]
  /\ shown = [i \in 1..Len(uiVariants) |-> FALSE]
  /\ attached = [i \in 1..Len(uiVariants) |-> FALSE]
  /\ walked = [i \in 1..Len(uiVariants) |-> FALSE]
  /\ tables = [r \in 0..Len(uiVariants) |-> [e \in Events |-> <<>>]]
  /\ host = [e \in Events |-> <<>>]
  /\ passedMetadata \in passed
  /\ metadata = [title |-> passedMetadata.title,
                 description |-> passedMetadata.description, markers |-> <<>>]
  /\ sourceConfig = NoSourceConfig
  /\ frames = [i \in 1..Len(uiVariants) |-> 0]
  /\ notified = [i \in 1..Len(uiVariants) |-> 0]
  /\ onConfigured = [i \in 1..Len(uiVariants) |-> <<>>]
  /\ NoSubtitles
  /\ NoNavigation
  /\ lastOp = Op("none")

\* the manager before its constructor, built without config.metadata
InitWith(conds, lists, sources, autos) == InitManager(conds, lists, sources, autos, {NoMetadata})

\* The manager through source loads and ads: variants with and without the
\* isAd condition, UIs with and without a repeated component, a subscriber
\* of onUiVariantResolve
Init == InitWith(AdConds, ChildLists, {FALSE}, BOOLEAN)

Next ==
  \/ Construct
  \/ SourceLoaded
  \/ AdStarted
  \/ AdEnded
  \/ SwitchTo
  \/ Resolve
  \/ Subscribe

Spec == Init /\ [][Next]_vars

\* The manager through the changes of the player's state the context reads:
\* variants over every condition, a player with or without a source
InitContext == InitWith(Conds, {<<"a">>}, BOOLEAN, BOOLEAN)

NextContext ==
  \/ Construct
  \/ Play
  \/ Paused
  \/ ViewModeChanged
  \/ ResolveContext

SpecContext == InitContext /\ [][NextContext]_vars

\* The manager's configuration through source loads and marker calls: built
\* with one UI, with and without config.metadata
InitConfig == InitManager({Null}, {<<"a">>}, {FALSE}, {TRUE}, PassedMetadata)

NextConfig ==
  \/ Construct
  \/ Load
  \/ AddMarker
  \/ RemoveMarker

SpecConfig == InitConfig /\ [][NextConfig]_vars

\* The same with a subscriber of onUiVariantResolve
NextResolve ==
  \/ NextContext
  \/ Subscribe

SpecResolve == InitContext /\ [][NextResolve]_vars

\* the conditions of SpecThrow: one of them throws in fullscreen
ThrowConds == {Null, "isPlaying", "throwsInFullscreen"}

\* The manager through the same steps with a condition that throws
InitThrow == InitWith(ThrowConds, {<<"a">>}, BOOLEAN, BOOLEAN)

SpecThrow == InitThrow /\ [][NextContext]_vars

\* The manager through release(): ad and default variants, UIs with and
\* without a repeated component
InitRelease == InitWith(AdConds, ChildLists, {FALSE}, {TRUE})

NextRelease ==
  \/ Construct
  \/ SourceLoaded
  \/ SwitchTo
  \/ Release

SpecRelease == InitRelease /\ [][NextRelease]_vars

\* The manager through switches, release and the animation frames of the
\* browser
NextFrame ==
  \/ Construct
  \/ SwitchTo
  \/ Release
  \/ Frame

InitFrame == InitWith({Null}, {<<"a">>}, {FALSE}, {TRUE})

SpecFrame == InitFrame /\ [][NextFrame]_vars

\* The manager through ads, release, the animation frames and the
\* subscriptions to onConfigured: ad and default variants, no manual switch
InitConfigured == InitWith(AdConds, {<<"a">>}, {FALSE}, {TRUE})

NextConfigured ==
  \/ Construct
  \/ AdStarted
  \/ Release
  \/ Frame
  \/ SubscribeConfigured

SpecConfigured == InitConfigured /\ [][NextConfigured]_vars

\* ------------------------------------------------------- the relays alone
\* The PlayerWrappers of a manager with one UI (the manager's relay and the
\* UI's), driven directly through on / off / fireEventInUI /
\* clearEventHandlers by the code that holds them.
RelayEvents == {"sourceloaded", "adstarted"}
Handlers == {"h1", "h2"}
\* the data objects handed to fireEventInUI: {} and a real player event
FireData == {EmptyData, [type |-> "adstarted", timestamp |-> EventTime, clientType |-> "vast"]}
\* the subscriptions their holders make and undo: the manager one handler
\* of SourceLoaded on its own relay, the UI's components one of SourceLoaded
\* and two of AdStarted on the UI's relay
RelayInputs ==
  {<<r, "sourceloaded", "h1">> : r \in {MgrRelay, 1}} \cup {<<1, "adstarted", h>> : h \in Handlers}

RelayOp(name, r, ev, cb) ==
  [Op(name) EXCEPT !.target = r, !.event = [type |-> ev], !.kind = cb]

\* wrapper.on(eventType, callback)
RelayOn ==
  /\ phase = "relays"
  /\ \E in \in RelayInputs :
       /\ Len(tables[in[1]][in[2]]) < MaxFree
       /\ Commit(WrapperOn(Snapshot, in[1], in[2], Callback(in[1], in[3], 1)),
                 RelayOp("on", in[1], in[2], in[3]))
  /\ UNCHANGED <<phase, listener>>

\* wrapper.off(eventType, callback)
RelayOff ==
  /\ phase = "relays"
  /\ \E in \in RelayInputs :
       Commit(WrapperOff(Snapshot, in[1], in[2], Callback(in[1], in[3], 1)),
              RelayOp("off", in[1], in[2], in[3]))
  /\ UNCHANGED <<phase, listener>>

\* wrapper.fireEventInUI(event, data)
RelayFire ==
  /\ phase = "relays"
  /\ \E r \in Relays, ev \in RelayEvents, data \in FireData :
       Commit(FireEventInUI(Snapshot, r, ev, data, UiTime),
              [RelayOp("fire", r, ev, Null) EXCEPT !.data = data])
  /\ UNCHANGED <<phase, listener>>

\* PlayerWrapper.clearEventHandlers()
RelayClear ==
  /\ phase = "relays"
  /\ \E r \in Relays :
       Commit(ClearEventHandlers(Snapshot, r), RelayOp("clear", r, Null, Null))
  /\ UNCHANGED <<phase, listener>>

\* player.on(eventType, callback) called on the real player, not through a
\* relay, with a callback that was handed to the relay before and is not
\* subscribed now; afterClear records that the call directly follows a
\* clearEventHandlers of that relay
HostSubscribe ==
  /\ phase = "relays"
  /\ \E in \in RelayInputs :
       /\ \E k \in 1..Len(tables[in[1]][in[2]]) :
            tables[in[1]][in[2]][k] = Callback(in[1], in[3], 1)
       /\ ~HostHas(host, in[2], Callback(in[1], in[3], 1))
       /\ Commit([Snapshot EXCEPT !.host = HostOn(@, in[2], Callback(in[1], in[3], 1))],
                 [RelayOp("hostOn", in[1], in[2], in[3]) EXCEPT
                    !.afterClear = (lastOp.op = "clear" /\ lastOp.target = in[1])])
  /\ UNCHANGED <<phase, listener>>

\* one UI that was never selected: empty tables, nothing subscribed
Idle ==
  /\ uiVariants = <<Null>>
  /\ children = <<<<"a">>>>
  /\ autoResolve = FALSE
  /\ listener = "none"
  /\ source = FALSE
  /\ playing = FALSE
  /\ fullscreen = FALSE
  /\ adStartedEvent = NoEvent
  /\ currentUi = NoUi
  /\ configured = <<FALSE>>
  /\ released = <<FALSE>>
  /\ shown = <<FALSE>>
  /\ attached = <<FALSE>>
  /\ walked = <<FALSE>>
  /\ tables = [r \in 0..1 |-> [e \in Events |-> <<>>]]
  /\ passedMetadata = NoMetadata
  /\ metadata = BlankMetadata
  /\ sourceConfig = NoSourceConfig
  /\ frames = <<0>>
  /\ notified = <<0>>
  /\ onConfigured = <<<<>>>>
  /\ host = [e \in Events |-> <<>>]
  /\ NoSubtitles
  /\ NoNavigation
  /\ lastOp = Op("none")

\* both relays after their construction
InitRelay == phase = "relays" /\ Idle

\* ------------------------------------------------------- SubtitleOverlay
\* ActiveSubtitleManager.calculateId: event.start + event.text, a number
\* and a string, is the concatenation of the number's digits and the text
CalculateId(event) == ToString(event.start) \o event.text

\* cueEnter: the map after it; the new label is labelCount + 1
CueEnterMap(map, event, label) ==
  [id \in DOMAIN map \cup {CalculateId(event)} |->
     IF id = CalculateId(event) THEN [event |-> event, label |-> label] ELSE map[id]]

\* cueExit: the label it returns, and the map after it
CueExitLabel(map, event) ==
  IF CalculateId(event) \in DOMAIN map THEN map[CalculateId(event)].label ELSE NoLabel

CueExitMap(map, event) ==
  [id \in DOMAIN map \ {CalculateId(event)} |-> map[id]]

\* the variables of the manager and its relays
managerVars ==
  <<phase, uiVariants, children, autoResolve, listener, source, sourceConfig,
    passedMetadata, metadata, frames, notified, onConfigured, playing, fullscreen,
    adStartedEvent, currentUi, configured, released, shown, attached, walked,
    tables, host>>

\* the handler of ON_CUE_ENTER of SubtitleOverlay.configure
CueEnter ==
  /\ phase = "subtitles"
  /\ labelCount < MaxLabels
  /\ \E event \in Cues \ activeCues :
       /\ activeSubtitleCueMap' = CueEnterMap(activeSubtitleCueMap, event, labelCount + 1)
       /\ overlayLabels' = overlayLabels \cup {labelCount + 1}
       /\ labelCount' = labelCount + 1
       /\ activeCues' = activeCues \cup {event}
       /\ lastOp' = [Op("cueEnter") EXCEPT !.data = event, !.label = labelCount + 1]
  /\ UNCHANGED managerVars
  /\ UNCHANGED panelVars

\* the handler of ON_CUE_EXIT of SubtitleOverlay.configure
CueExit ==
  /\ phase = "subtitles"
  /\ \E event \in activeCues :
       LET labelToRemove == CueExitLabel(activeSubtitleCueMap, event)
       IN /\ activeSubtitleCueMap' = CueExitMap(activeSubtitleCueMap, event)
          /\ overlayLabels' = IF labelToRemove # NoLabel
                              THEN overlayLabels \ {labelToRemove}
                              ELSE overlayLabels
          /\ labelCount' = labelCount
          /\ activeCues' = activeCues \ {event}
          /\ lastOp' = [Op("cueExit") EXCEPT !.data = event, !.label = labelToRemove]
  /\ UNCHANGED managerVars
  /\ UNCHANGED panelVars

InitSubtitles == phase = "subtitles" /\ Idle

NextSubtitles ==
  \/ CueEnter
  \/ CueExit

SpecSubtitles == InitSubtitles /\ [][NextSubtitles]_vars

\* the callbacks a component hands to its relay for ReentrantEvent
ReentrantHandlers == {"h1", "offSelf", "offOther", "onNew"}

\* wrapper.on(eventType, callback) with one of these callbacks
ReentrantOn ==
  /\ phase = "relays"
  /\ Len(tables[1][ReentrantEvent]) < MaxFree
  /\ \E name \in ReentrantHandlers :
       Commit(WrapperOn(Snapshot, 1, ReentrantEvent, Callback(1, name, 1)),
              RelayOp("on", 1, ReentrantEvent, name))
  /\ UNCHANGED <<phase, listener>>

\* wrapper.off(eventType, callback) with one of these callbacks, or with the
\* callback one of them subscribed
ReentrantOff ==
  /\ phase = "relays"
  /\ \E name \in ReentrantHandlers \cup {"h2"} :
       Commit(WrapperOff(Snapshot, 1, ReentrantEvent, Callback(1, name, 1)),
              RelayOp("off", 1, ReentrantEvent, name))
  /\ UNCHANGED <<phase, listener>>

\* wrapper.fireEventInUI(eventType, data) while such callbacks are
\* subscribed; the dispatches that leave more than MaxFree + 1 callbacks are
\* left out
ReentrantFire ==
  /\ phase = "relays"
  /\ \E data \in FireData :
       LET st == FireEventInUI(Snapshot, 1, ReentrantEvent, data, UiTime)
       IN /\ Len(st.tables[1][ReentrantEvent]) <= MaxFree + 1
          /\ Commit(st, [RelayOp("fire", 1, ReentrantEvent, Null) EXCEPT !.data = data])
  /\ UNCHANGED <<phase, listener>>

\* a relay whose callbacks subscribe and unsubscribe during a dispatch
NextReentrant ==
  \/ ReentrantOn
  \/ ReentrantOff
  \/ ReentrantFire

SpecReentrant == InitRelay /\ [][NextReentrant]_vars

\* --------------------------------------------------------- SettingsPanel
\* the SettingsPanelPage components of a panel, the root page first
PageNames == <<"root", "p1", "p2", "p3">>

\* getPages()
GetPages == SubSeq(PageNames, 1, MaxPages + 1)

\* Array.indexOf: the position of the first element equal to item, counted
\* from 0; -1 when there is none
IndexOf(array, item) ==
  IF \E k \in 1..Len(array) : array[k] = item
  THEN (CHOOSE k \in 1..Len(array) :
          array[k] = item /\ \A j \in 1..(k - 1) : array[j] # item) - 1
  ELSE -1

\* the navigation state of the panel as one record
Panel == [activePageIndex |-> activePageIndex, navigationStack |-> navigationStack]

\* setActivePageIndex(index)
SetActivePageIndex(panel, index) ==
  IF index # panel.activePageIndex
  THEN [activePageIndex |-> index,
        navigationStack |-> Append(panel.navigationStack, GetPages[index + 1])]
  ELSE panel

\* setActivePage(page)
SetActivePage(panel, page) == SetActivePageIndex(panel, IndexOf(GetPages, page))

\* resetNavigation
ResetNavigation(panel) == [activePageIndex |-> 0, navigationStack |-> <<>>]

\* popToRootSettingsPanelPage
PopToRootSettingsPanelPage(panel) == ResetNavigation(panel)

\* popSettingsPanelPage: navigationStack.pop() (nothing on an empty array),
\* then the last page left on the stack becomes the target
PopSettingsPanelPage(panel) ==
  LET stack == panel.navigationStack
      popped == IF stack = <<>> THEN stack ELSE SubSeq(stack, 1, Len(stack) - 1)
      removed == [panel EXCEPT !.navigationStack = popped]
  IN IF popped # <<>>
     THEN SetActivePage(removed, popped[Len(popped)])
     ELSE PopToRootSettingsPanelPage(removed)

\* a method of the panel ran: the panel after it; lastOp.data keeps the
\* navigation state the method started in
PanelCommit(panel, op) ==
  /\ activePageIndex' = panel.activePageIndex
  /\ navigationStack' = panel.navigationStack
  /\ lastOp' = [op EXCEPT !.data = Panel]
  /\ UNCHANGED managerVars
  /\ UNCHANGED subtitleVars

\* settingsPanel.setActivePage(page) called by a page navigator button
PanelSetActivePage ==
  /\ phase = "panel"
  /\ Len(navigationStack) < MaxDepth
  /\ \E k \in 1..Len(GetPages) :
       PanelCommit(SetActivePage(Panel, GetPages[k]),
                   [Op("setActivePage") EXCEPT !.kind = GetPages[k]])

\* settingsPanel.popSettingsPanelPage() called by a back button
PanelPop ==
  /\ phase = "panel"
  /\ PanelCommit(PopSettingsPanelPage(Panel), Op("popSettingsPanelPage"))

\* the panel is hidden: the handler of onHide resets the navigation
PanelHide ==
  /\ phase = "panel"
  /\ PanelCommit(ResetNavigation(Panel), Op("resetNavigation"))

InitPanel == phase = "panel" /\ Idle

NextPanel ==
  \/ PanelSetActivePage
  \/ PanelPop
  \/ PanelHide

SpecPanel == InitPanel /\ [][NextPanel]_vars

NextRelay ==
  \/ RelayOn
  \/ RelayOff
  \/ RelayFire
  \/ RelayClear

SpecRelay == InitRelay /\ [][NextRelay]_vars

\* the relays and subscriptions made on the player outside them
NextOutside ==
  \/ RelayOn
  \/ RelayClear
  \/ HostSubscribe

SpecOutside == InitRelay /\ [][NextOutside]_vars

\* the relays through on / off / fireEventInUI only
NextOnOff ==
  \/ RelayOn
  \/ RelayOff
  \/ RelayFire

SpecOnOff == InitRelay /\ [][NextOnOff]_vars

\* ------------------------------------------------------------- properties
\* the positions in a handler's log of the steps of one kind on one UI
StepsOf(log, name, ui) == {k \in 1..Len(log) : log[k].step = name /\ log[k].ui = ui}

ValidationErrors == {"Too many UIs without a condition", "Invalid UI variant order"}

\* the variant list has more than one variant without condition, or one that
\* is not the last element
BadList ==
  \/ Cardinality({k \in 1..Len(uiVariants) : uiVariants[k] = Null}) > 1
  \/ \E k \in 1..(Len(uiVariants) - 1) : uiVariants[k] = Null

\* the root container of UI i holds one component more than once
HasRepeat(i) ==
  \E j, k \in 1..Len(children[i]) : j # k /\ children[i][j] = children[i][k]

\* the first component that the tree of UI i holds a second time
Repeated(i) ==
  LET k == CHOOSE k \in 1..Len(children[i]) :
             /\ \E j \in 1..(k - 1) : children[i][j] = children[i][k]
             /\ \A m \in 1..(k - 1) : \A j \in 1..(m - 1) : children[i][j] # children[i][m]
  IN children[i][k]

NoAd == [isAd |-> FALSE, adClientType |-> Null]
HandledEvent == lastOp.op = "event" /\ lastOp.handled

\* C1: for a validated variant list, a resolution selects the first variant
\* in list order whose condition is absent or true on the context; when no
\* conditioned variant accepts it selects the trailing variant without
\* condition if there is one, and no variant otherwise.
C1_SelectsFirstAccepting ==
  lastOp.res.resolved =>
    LET ctx == lastOp.res.ctx
        sel == lastOp.res.selected
        Accepts(k) == uiVariants[k] = Null \/ Condition(uiVariants[k], ctx)
        n == Len(uiVariants)
    IN /\ sel # NoUi => Accepts(sel) /\ \A j \in 1..(sel - 1) : ~Accepts(j)
       /\ sel = NoUi => \A j \in 1..n : ~Accepts(j)
       /\ (\A j \in 1..n : uiVariants[j] # Null => ~Condition(uiVariants[j], ctx))
            => sel = IF n > 0 /\ uiVariants[n] = Null THEN n ELSE NoUi

C1_Witness ==
  /\ lastOp.res.resolved
  /\ uiVariants = <<"isFullscreen", "isPlaying">>
  /\ lastOp.res.selected = 2

C3_SwitchToCurrentIsNoOp ==
  [][(lastOp'.op = "switch" /\ lastOp'.target = currentUi /\ currentUi # NoUi)
       => /\ lastOp'.log = <<>>
          /\ UNCHANGED <<currentUi, configured, shown, attached, walked, tables, host>>]_vars

C3_Witness ==
  /\ lastOp.op = "switch"
  /\ lastOp.target # NoUi
  /\ lastOp.target = lastOp.prev
  /\ lastOp.kind = "user"
  /\ shown[lastOp.target]

\* C4 as stated: over player events, switchToUiVariant and resolveUiVariant
\* calls, the configure tree-walk of each UI's instance manager runs at most
\* once: no handler walks the tree of a UI that was walked before.
C4_WalksAtMostOnce ==
  [][\A i \in Uis : StepsOf(lastOp'.log, "configureComponent", i) # {} => ~walked[i]]_vars

\* the callbacks of AdStarted in the table of the current UI's relay were
\* each called once by the last handler, with the stored AdStarted event as
\* data, before the UI was shown
Replayed ==
  LET table == tables[currentUi]["adstarted"]
      log == lastOp.log
      CallsOf(cb) == {k \in 1..Len(log) : /\ log[k].step = "callback"
                                         /\ log[k].ui = currentUi
                                         /\ log[k].cb = cb
                                         /\ log[k].data.type = "adstarted"}
  IN \A j \in 1..Len(table) :
       /\ Cardinality(CallsOf(table[j])) = Cardinality({m \in 1..Len(table) : table[m] = table[j]})
       /\ \A k \in CallsOf(table[j]) :
            /\ log[k].data = Assign([uiSourced |-> TRUE], lastOp.event)
            /\ \A m \in StepsOf(log, "show", currentUi) : k < m

SwitchedOnAdStarted ==
  /\ HandledEvent
  /\ lastOp.event.type = "adstarted"
  /\ currentUi # NoUi
  /\ currentUi # lastOp.prev

C6_AdEndClears ==
  /\ (lastOp.op = "event" /\ lastOp.event.type \in AdEndEvents)
       => /\ adStartedEvent = NoEvent
          /\ lastOp.handled => lastOp.res.resolved /\ lastOp.res.context = NoAd
  /\ (lastOp.op = "event" /\ lastOp.stored = NoEvent /\ lastOp.event.type # "adstarted")
       => /\ adStartedEvent = NoEvent
          /\ lastOp.handled => lastOp.res.resolved /\ lastOp.res.context = NoAd
  /\ lastOp.op # "event" => adStartedEvent = lastOp.stored

C6_Witness ==
  /\ HandledEvent
  /\ lastOp.event.type = "aderror"
  /\ lastOp.stored # NoEvent
  /\ adStartedEvent = NoEvent

\* C7: on a SourceLoaded player event while an AdStarted event is stored:
\* with no linear ad active the stored event is cleared and the resolution of
\* this event reports isAd false; with a linear ad active the stored event is
\* kept and the resolution reports isAd true.
C7_SourceLoadedDuringAd ==
  (HandledEvent /\ lastOp.event.type = "sourceloaded" /\ lastOp.stored # NoEvent)
    => /\ lastOp.res.resolved
       /\ IF lastOp.linear
          THEN /\ adStartedEvent = lastOp.stored
               /\ lastOp.res.context = [isAd |-> TRUE, adClientType |-> lastOp.stored.clientType]
          ELSE /\ adStartedEvent = NoEvent
               /\ lastOp.res.context = NoAd

C7_Witness ==
  /\ HandledEvent
  /\ lastOp.event.type = "sourceloaded"
  /\ lastOp.stored # NoEvent
  /\ lastOp.linear
  /\ lastOp.res.context.isAd

\* C8: after clearEventHandlers() on a relay the real player holds no
\* subscription made through that relay's on().
C8_ClearUnsubscribesAll ==
  lastOp.op = "clear" =>
    \A ev \in Events : \A k \in 1..Len(host[ev]) : host[ev][k].owner # lastOp.target

C8_Witness ==
  /\ lastOp.op = "clear"
  /\ lastOp.target = 1
  /\ Len(tables[1]["adstarted"]) = 2
  /\ tables[1]["sourceloaded"] # <<>>
  /\ host["sourceloaded"] # <<>>

AdScenario ==
  /\ uiVariants = <<"isAd", Null>>
  /\ autoResolve
  /\ lastOp.op = "construct" \/ HandledEvent

AdUiIffStored == currentUi = IF adStartedEvent # NoEvent THEN 1 ELSE 2

\* C10 as stated: with the variants [A with condition isAd, B without
\* condition] and automatic resolution, after construction and after every
\* handled player event the current UI is A exactly when an AdStarted event
\* is stored, and B otherwise.
C10_AdUiIffAdStored == AdScenario => AdUiIffStored

\* C10, amended: the same, provided no subscriber of onUiVariantResolve
\* changes isAd in the context.
C10_AdUiIffAdStoredUnlessRewritten == (AdScenario /\ listener = "none") => AdUiIffStored

C10_Witness ==
  /\ AdScenario
  /\ listener = "none"
  /\ HandledEvent
  /\ lastOp.event.type = "adstarted"
  /\ currentUi = 1
  /\ lastOp.prev = 2

\* C11: configuring a UI whose tree holds one component at two positions
\* throws the circular reference error naming that component; the component
\* is initialized and configured once only, and the manager's configured flag
\* stays false.
C11_DuplicateFailsConfigure ==
  \A i \in Uis :
    HasRepeat(i) =>
      /\ ~configured[i]
      /\ StepsOf(lastOp.log, "configureComponent", i) # {} =>
           /\ lastOp.error = "Circular reference in UI tree: " \o Repeated(i)
           /\ Cardinality({k \in StepsOf(lastOp.log, "configureComponent", i) :
                             lastOp.log[k].data.component = Repeated(i)}) = 1
           /\ StepsOf(lastOp.log, "show", i) = {}

C11_Witness ==
  /\ lastOp.op = "switch"
  /\ lastOp.target # NoUi
  /\ HasRepeat(lastOp.target)
  /\ lastOp.error = "Circular reference in UI tree: b"
  /\ currentUi = lastOp.target

\* C12 as stated: once an instance manager is released, no later handler
\* runs its configure tree-walk or sets its configured flag.
C12_ReleasedNeverConfigured ==
  [][\A i \in Uis :
       released[i] => /\ StepsOf(lastOp'.log, "configureComponent", i) = {}
                      /\ ~configured'[i]]_vars

\* the calls release() of the UIManager made on the components of UI i
ReleaseCalls(log, i) == StepsOf(log, "releaseComponent", i)

\* C15: releasing an instance manager that is not configured (never
\* configured, or whose configuration threw) calls release() on none of its
\* components and dispatches no onRelease.
C15_UnconfiguredReleaseIsSilent ==
  [][lastOp'.op = "release" =>
       \A i \in Uis :
         ~configured[i] => /\ ReleaseCalls(lastOp'.log, i) = {}
                           /\ StepsOf(lastOp'.log, "onRelease", i) = {}
                           /\ ~configured'[i]
                           /\ released'[i]]_vars

C15_Witness ==
  /\ lastOp.op = "release"
  /\ \E i, j \in Uis : /\ ~walked[i]
                       /\ released[i]
                       /\ ReleaseCalls(lastOp.log, i) = {}
                       /\ ReleaseCalls(lastOp.log, j) # {}

\* C16 as stated: releasing a configured instance manager dispatches
\* onRelease before any component's release(), then calls release() once on
\* every component of the tree and ends with configured false and released
\* true; a release of a manager that was released before calls release() on
\* none of its components.
C16_ReleaseOnceInOrder ==
  [][lastOp'.op = "release" =>
       \A i \in Uis :
         LET log == lastOp'.log
         IN /\ configured[i] =>
                 /\ Cardinality(StepsOf(log, "onRelease", i)) = 1
                 /\ \A p \in StepsOf(log, "onRelease", i) : \A k \in ReleaseCalls(log, i) : p < k
                 /\ \A n \in 1..Len(TreeOf(i)) :
                      Cardinality({k \in ReleaseCalls(log, i) :
                                     log[k].data.component = TreeOf(i)[n]}) = 1
                 /\ Cardinality(ReleaseCalls(log, i)) = Len(TreeOf(i))
                 /\ ~configured'[i]
                 /\ released'[i]
            /\ released[i] => ReleaseCalls(log, i) = {}]_vars

\* C17: after release() every instance manager is released and the real
\* player holds no handler of the manager's own relay, so a later player event
\* runs no resolution, no switch and no onUpdated.
C17_ReleaseDetachesManager ==
  /\ lastOp.op = "release" =>
       /\ \A i \in Uis : released[i]
       /\ \A ev \in Events : \A k \in 1..Len(host[ev]) : host[ev][k].owner # MgrRelay
  /\ (phase = "released" /\ lastOp.op = "event") =>
       /\ ~lastOp.handled
       /\ ~lastOp.res.resolved
       /\ lastOp.log = <<>>
       /\ currentUi = lastOp.prev

C17_Witness ==
  /\ phase = "released"
  /\ lastOp.op = "event"
  /\ lastOp.event.type = "sourceloaded"
  /\ lastOp.log = <<>>
  /\ currentUi # NoUi
  /\ \E i \in Uis : released[i] /\ ~walked[i]

\* the handlers of ev the real player holds that were subscribed through
\* relay r, in the order of subscription
LiveSubs(h, r, ev) ==
  LET Through(cb) == cb.owner = r
  IN SelectSeq(h[ev], Through)

\* C13 as stated: fireEventInUI(eventKind, data) calls no method of the real
\* player and calls exactly the callbacks currently subscribed for eventKind
\* through this relay, each once, in the order of subscription; with none
\* subscribed it does nothing.
C13_FireCallsSubscribed ==
  [][lastOp'.op = "fire" =>
       LET live == LiveSubs(host, lastOp'.target, lastOp'.event.type)
           Called(e) == e.step = "callback"
           log == SelectSeq(lastOp'.log, Called)
       IN /\ host' = host
          /\ tables' = tables
          /\ Len(log) = Len(live)
          /\ \A k \in 1..Len(log) : /\ log[k].step = "callback"
                                    /\ log[k].ui = lastOp'.target
                                    /\ log[k].cb = live[k]]_vars

\* array without its element at position p
Without(array, p) == SubSeq(array, 1, p - 1) \o SubSeq(array, p + 1, Len(array))

\* C14: over on() and off() calls the table of a relay holds, per event
\* kind, exactly the callbacks subscribed through the relay and not yet
\* unsubscribed, in the order of subscription: on() appends one entry and
\* forwards to the player; off() forwards to the player and removes at most
\* one entry, equal to the callback; off() of a callback that is not in the
\* table leaves the table as it is.
C14_TableTracksSubscriptions ==
  /\ [](\A r \in Relays : \A ev \in Events : tables[r][ev] = LiveSubs(host, r, ev))
  /\ [][LET r == lastOp'.target
            ev == lastOp'.event.type
            cb == Callback(r, lastOp'.kind, 1)
            old == tables[r][ev]
        IN /\ lastOp'.op = "on" =>
                /\ tables' = [tables EXCEPT ![r][ev] = Append(old, cb)]
                /\ host' = [host EXCEPT ![ev] = Append(@, cb)]
           /\ lastOp'.op = "off" =>
                /\ \A q \in Relays : \A e \in Events :
                     (q # r \/ e # ev) => tables'[q][e] = tables[q][e]
                /\ IF \E p \in 1..Len(old) : old[p] = cb
                   THEN \E p \in 1..Len(old) : old[p] = cb /\ tables'[r][ev] = Without(old, p)
                   ELSE tables'[r][ev] = old
                /\ Len(host'[ev]) >= Len(host[ev]) - 1
                /\ \A k \in 1..Len(host'[ev]) : HostHas(host, ev, host'[ev][k])]_vars

C14_Witness ==
  /\ lastOp.op = "off"
  /\ lastOp.target = 1
  /\ lastOp.event.type = "adstarted"
  /\ lastOp.kind = "h1"
  /\ tables[1]["adstarted"] = <<Callback(1, "h1", 1)>>
  /\ host["adstarted"] = <<Callback(1, "h1", 1)>>

\* the manager was constructed with a single UI: one variant, no condition
SingleUi == Len(uiVariants) = 1 /\ uiVariants[1] = Null

\* C18: a manager constructed with a single UI has that UI current,
\* configured and shown when the constructor returns, and every player event
\* and every resolveUiVariant call after that leaves it current, configured
\* and shown without hiding or showing it again.
C18_SingleUiStaysCurrent ==
  /\ [](SingleUi /\ lastOp.op = "construct" /\ lastOp.error = NoError =>
          currentUi = 1 /\ configured[1] /\ shown[1])
  /\ [][(/\ SingleUi
         /\ currentUi = 1 /\ configured[1] /\ shown[1]
         /\ lastOp'.op \in {"event", "resolve"}) =>
          /\ currentUi' = 1 /\ configured'[1] /\ shown'[1]
          /\ lastOp'.error = NoError
          /\ StepsOf(lastOp'.log, "hide", 1) = {}
          /\ StepsOf(lastOp'.log, "show", 1) = {}
          /\ StepsOf(lastOp'.log, "configureComponent", 1) = {}]_vars

C18_Witness ==
  /\ SingleUi
  /\ HandledEvent
  /\ lastOp.event.type = "adstarted"
  /\ lastOp.res.resolved
  /\ lastOp.res.ctx.isAd
  /\ lastOp.prev = 1
  /\ currentUi = 1
  /\ shown[1]

\* on the context, the selection loop reaches a condition that throws before
\* any variant accepts
ReachesThrow(ctx) ==
  \E k \in 1..Len(uiVariants) :
    /\ Throws(uiVariants[k], ctx)
    /\ \A j \in 1..(k - 1) : uiVariants[j] # Null /\ ~Condition(uiVariants[j], ctx)

\* C19: when a variant's condition throws during a resolution, the error
\* leaves resolveUiVariant and no switch has been made: the current UI and
\* the shown, configured and attached state of every UI are what they were
\* before the resolution.
C19_ThrowingConditionSwitchesNothing ==
  [][(lastOp'.res.resolved /\ ReachesThrow(lastOp'.res.ctx)) =>
       /\ lastOp'.error = ConditionError
       /\ currentUi' = currentUi
       /\ shown' = shown
       /\ configured' = configured
       /\ attached' = attached
       /\ \A i \in Uis : /\ StepsOf(lastOp'.log, "hide", i) = {}
                         /\ StepsOf(lastOp'.log, "show", i) = {}
                         /\ StepsOf(lastOp'.log, "configureComponent", i) = {}]_vars

C19_Witness ==
  /\ HandledEvent
  /\ lastOp.event.type = "viewmodechanged"
  /\ lastOp.error = ConditionError
  /\ uiVariants = <<"throwsInFullscreen", Null>>
  /\ lastOp.prev = 2
  /\ currentUi = 2
  /\ shown[2]

\* the manager as the event handler of the step leaves it, had the
\* application called resolveUiVariant(context) with the context of the
\* handler and no onShow at the point where the handler calls it
ManualResolution ==
  ResolveUiVariant([Snapshot EXCEPT !.source = source', !.playing = playing',
                                    !.fullscreen = fullscreen',
                                    !.adStartedEvent = adStartedEvent'],
                   lastOp'.res.context, "none", UiTime)

\* the UI actions of a log: hide, configure, append, relayed events, show
UiActions(log) ==
  LET OnUi(e) == e.step \notin {"onUpdated", "onUiVariantResolve", "onShow"}
  IN SelectSeq(log, OnUi)

\* the UI actions of a log without the relayed AdStarted events
WithoutAdStarted(log) ==
  LET Other(e) == ~(e.step \in {"fireEventInUI", "callback"} /\ e.data.type = "adstarted")
  IN SelectSeq(UiActions(log), Other)

C21_NoMatchShowsNothing ==
  [][(lastOp'.res.resolved /\ lastOp'.error = NoError) =>
       /\ lastOp'.res.selected = NoUi =>
            /\ \A k \in Uis : uiVariants[k] # Null /\ ~Condition(uiVariants[k], lastOp'.res.ctx)
            /\ currentUi' = NoUi
            /\ \A i \in Uis : ~shown'[i]
            /\ currentUi # NoUi => StepsOf(lastOp'.log, "hide", currentUi) # {}
            /\ \A i \in Uis : StepsOf(lastOp'.log, "show", i) = {}
       /\ (lastOp'.res.selected # NoUi /\ currentUi = NoUi) =>
            /\ currentUi' = lastOp'.res.selected
            /\ shown'[currentUi']
            /\ StepsOf(lastOp'.log, "show", currentUi') # {}]_vars

C21_Witness ==
  /\ lastOp.res.resolved
  /\ lastOp.op # "construct"
  /\ lastOp.prev = NoUi
  /\ currentUi # NoUi
  /\ shown[currentUi]
  /\ StepsOf(lastOp.log, "configureComponent", currentUi) = {}
  /\ StepsOf(lastOp.log, "show", currentUi) # {}

\* C22: addTimelineMarker appends the marker to the marker list and
\* dispatches onUpdated exactly once; removeTimelineMarker of a marker in
\* the list returns true, removes one occurrence and dispatches onUpdated
\* exactly once; of a marker not in the list it returns false, leaves the
\* list as it is and dispatches nothing.
C22_MarkerCalls ==
  [][LET marker == lastOp'.kind
         list == metadata.markers
     IN /\ lastOp'.op = "addMarker" =>
             /\ metadata'.markers = Append(list, marker)
             /\ lastOp'.log = <<Step("onUpdated", NoUi)>>
        /\ lastOp'.op = "removeMarker" =>
             IF \E p \in 1..Len(list) : list[p] = marker
             THEN /\ lastOp'.returned
                  /\ \E p \in 1..Len(list) :
                       list[p] = marker /\ metadata'.markers = Without(list, p)
                  /\ lastOp'.log = <<Step("onUpdated", NoUi)>>
             ELSE /\ ~lastOp'.returned
                  /\ metadata'.markers = list
                  /\ lastOp'.log = <<>>]_vars

C22_Witness ==
  /\ lastOp.op = "removeMarker"
  /\ lastOp.kind = "m1"
  /\ lastOp.returned
  /\ metadata.markers = <<"m1">>

\* the title or description the merged configuration should carry: the
\* loaded source's if it defines one, else the one passed at construction
Expected(field) ==
  IF source /\ sourceConfig[field] # Null THEN sourceConfig[field]
  ELSE passedMetadata[field]

\* C29: after the constructor and after every SourceLoaded event the merged
\* configuration's title and description are the loaded source's where it
\* defines them and the ones passed in the UI config otherwise; a
\* SourceLoaded event dispatches onUpdated exactly once, before the
\* resolution the same event triggers.
C29_ConfigFollowsSource ==
  (lastOp.op \in {"construct", "event"}) =>
     /\ metadata.title = Expected("title")
     /\ metadata.description = Expected("description")
     /\ (lastOp.op = "event" /\ lastOp.event.type = "sourceloaded") =>
          /\ StepsOf(lastOp.log, "onUpdated", NoUi) = {1}
          /\ lastOp.handled =>
               \A k \in 1..Len(lastOp.log) : lastOp.log[k].step = "onUiVariantResolve" => k > 1

\* every step named first in the log precedes every step named second
Precede(log, first, ui1, second, ui2) ==
  \A j \in StepsOf(log, first, ui1) : \A k \in StepsOf(log, second, ui2) : j < k

\* C23: in every switch from a current UI to another UI the steps are made
\* in one handler in this order: hide of the old UI, configuration of the
\* target's components (the first time only), append of the target's DOM
\* element, the onShow callback, show of the target; the old UI is hidden
\* before the target is configured or shown, and the DOM element is
\* appended only after the whole tree was configured.
C23_SwitchOrder ==
  (lastOp.prev # NoUi /\ currentUi # NoUi /\ currentUi # lastOp.prev) =>
    LET log == lastOp.log
        old == lastOp.prev
        new == currentUi
        Target(name) == StepsOf(log, name, new)
    IN /\ Cardinality(StepsOf(log, "hide", old)) = 1
       /\ \A name \in {"configureComponent", "circular", "append", "onShow", "show"} :
            Precede(log, "hide", old, name, new)
       /\ Precede(log, "configureComponent", new, "append", new)
       /\ Precede(log, "append", new, "onShow", new)
       /\ Precede(log, "append", new, "show", new)
       /\ Precede(log, "configureComponent", new, "show", new)
       /\ Precede(log, "onShow", new, "show", new)
       /\ Target("configureComponent") # {} =>
            \/ lastOp.error # NoError /\ Target("append") = {} /\ Target("show") = {}
            \/ /\ lastOp.error = NoError
               /\ Cardinality(Target("configureComponent")) = Len(TreeOf(new))
               /\ Cardinality(Target("append")) = 1
       /\ lastOp.error = NoError =>
            /\ Cardinality(Target("show")) = 1
            /\ shown[new] /\ ~shown[old]
            /\ (lastOp.op = "switch" /\ lastOp.kind = "user") =>
                 Cardinality(Target("onShow")) = 1

C23_Witness ==
  /\ lastOp.op = "switch"
  /\ lastOp.kind = "user"
  /\ lastOp.prev # NoUi
  /\ currentUi # NoUi
  /\ currentUi # lastOp.prev
  /\ lastOp.error = NoError
  /\ StepsOf(lastOp.log, "configureComponent", currentUi) # {}
  /\ StepsOf(lastOp.log, "onShow", currentUi) # {}

SourceReplays(i) ==
  {k \in StepsOf(lastOp.log, "fireEventInUI", i) : lastOp.log[k].data.type = "sourceloaded"}

\* the last handler made another UI current and returned
SwitchedUi == currentUi # NoUi /\ currentUi # lastOp.prev /\ lastOp.error = NoError

\* C25 as stated: whenever a switch makes a UI current while the player has
\* a source, SourceLoaded is fired in the UI's relay before the UI is
\* shown; without a source it is not fired.
C25_ReplayOnEverySwitch ==
  SwitchedUi =>
    /\ source => /\ SourceReplays(currentUi) # {}
                 /\ \A k \in SourceReplays(currentUi) :
                      \A j \in StepsOf(lastOp.log, "show", currentUi) : k < j
    /\ ~source => SourceReplays(currentUi) = {}

\* C25 amended: a switch fires SourceLoaded in the relay of the UI it makes
\* current exactly when it configures that UI (its first selection) and the
\* player has a source: once, after the DOM element is appended and before
\* the UI is shown.  A switch to a UI configured before, or without a
\* source, fires none.
C25_ReplayOnFirstSwitch ==
  SwitchedUi =>
    LET first == StepsOf(lastOp.log, "append", currentUi) # {}
    IN /\ (source /\ first) =>
            /\ Cardinality(SourceReplays(currentUi)) = 1
            /\ \A k \in SourceReplays(currentUi) :
                 /\ \A j \in StepsOf(lastOp.log, "show", currentUi) : k < j
                 /\ \A j \in StepsOf(lastOp.log, "append", currentUi) : j < k
       /\ ~(source /\ first) => SourceReplays(currentUi) = {}
       /\ StepsOf(lastOp.log, "show", currentUi) # {}

C25_Witness ==
  /\ SwitchedUi
  /\ source
  /\ lastOp.prev # NoUi
  /\ StepsOf(lastOp.log, "append", currentUi) # {}
  /\ SourceReplays(currentUi) # {}

\* C26: every resolution, triggered by an event or called by the
\* application, dispatches onUiVariantResolve exactly once, before anything
\* is done to a UI and also when the selected variant is the current one;
\* the conditions select on, and onShow receives, the context as the
\* subscribers left it, in which the caller's properties overwrite the
\* values read from the player and the container.
C26_ListenersBeforeConditions ==
  lastOp.res.resolved =>
    LET log == lastOp.log
        dispatches == {k \in 1..Len(log) : log[k].step = "onUiVariantResolve"}
        merged == Assign(DefaultContext(Snapshot), lastOp.res.context)
    IN /\ Cardinality(dispatches) = 1
       /\ \A k \in 1..Len(log) :
            log[k].step \notin {"onUiVariantResolve", "onUpdated"} =>
              \A d \in dispatches : d < k
       /\ \A f \in DOMAIN lastOp.res.context : merged[f] = lastOp.res.context[f]
       /\ lastOp.res.ctx = Dispatched(merged)
       /\ lastOp.res.selected = SelectVariant(uiVariants, lastOp.res.ctx)
       /\ lastOp.error = NoError => currentUi = lastOp.res.selected
       /\ \A k \in 1..Len(log) : log[k].step = "onShow" => log[k].data = lastOp.res.ctx

C26_Witness ==
  /\ lastOp.op = "resolve"
  /\ listener = "clearAd"
  /\ DOMAIN lastOp.res.context = {"isAd", "adClientType"}
  /\ lastOp.res.context.isAd
  /\ ~lastOp.res.ctx.isAd
  /\ Len(uiVariants) = 2
  /\ uiVariants[1] = "isAd"
  /\ currentUi # 1
  /\ currentUi # lastOp.prev
  /\ StepsOf(lastOp.log, "onShow", currentUi) # {}

\* the records the callbacks of the last fireEventInUI received
Delivered(log) == {log[k].data : k \in {j \in 1..Len(log) : log[j].step = "callback"}}

\* C27 as stated: for every event kind and data record, also one that
\* carries type, timestamp or uiSourced itself, the record fireEventInUI
\* delivers has type equal to the event kind, uiSourced true and every
\* other property of data.
C27_TypeAndMarkerForced ==
  [][lastOp'.op = "fire" =>
       \A record \in Delivered(lastOp'.log) :
         /\ record.type = lastOp'.event.type
         /\ record.uiSourced = TRUE
         /\ \A f \in DOMAIN lastOp'.data \ {"type", "timestamp", "uiSourced"} :
              record[f] = lastOp'.data[f]]_vars

\* C27 amended: the record delivered has every property of data with
\* data's value, type, timestamp and uiSourced included; the event kind,
\* the current time and uiSourced true are the values of type, timestamp
\* and uiSourced only where data does not carry the property.
C27_DataOverDefaults ==
  [][lastOp'.op = "fire" =>
       \A record \in Delivered(lastOp'.log) :
         /\ DOMAIN record = DOMAIN lastOp'.data \cup {"type", "timestamp", "uiSourced"}
         /\ \A f \in DOMAIN lastOp'.data : record[f] = lastOp'.data[f]
         /\ "type" \notin DOMAIN lastOp'.data => record.type = lastOp'.event.type
         /\ "timestamp" \notin DOMAIN lastOp'.data => record.timestamp = UiTime
         /\ "uiSourced" \notin DOMAIN lastOp'.data => record.uiSourced = TRUE]_vars

C27_Witness ==
  /\ lastOp.op = "fire"
  /\ lastOp.event.type = "sourceloaded"
  /\ DOMAIN lastOp.data # {}
  /\ \E record \in Delivered(lastOp.log) :
       record.type = "adstarted" /\ record.timestamp = EventTime /\ record.uiSourced

\* C28: clearEventHandlers is idempotent: called on a relay that was just
\* cleared, or that was cleared and then saw one of its callbacks
\* subscribed on the player outside the relay, it changes neither the
\* relay's table nor the subscriptions of the player.
C28_ClearIdempotent ==
  [][(/\ lastOp'.op = "clear"
      /\ \/ lastOp.op = "clear" /\ lastOp.target = lastOp'.target
         \/ lastOp.op = "hostOn" /\ lastOp.afterClear /\ lastOp.target = lastOp'.target)
       => /\ tables' = tables
          /\ host' = host]_vars

\* C30: over cue-enter and cue-exit events in which every entered cue is
\* exited later, also with two active cues of the same start and text or of
\* the same concatenation of start and text, every label cueEnter returned
\* is returned by exactly one cueExit: every exit of an active cue returns a
\* label that is in the overlay, and when no cue is active the manager
\* holds no cue and the overlay no label.
C30_EveryLabelRemoved ==
  /\ [](activeCues = {} => DOMAIN activeSubtitleCueMap = {} /\ overlayLabels = {})
  /\ [][lastOp'.op = "cueExit" =>
          /\ lastOp'.label # NoLabel
          /\ lastOp'.label \in overlayLabels]_vars

\* C31: after any handler (player event, switchToUiVariant,
\* resolveUiVariant) has returned or thrown, at most one UI is shown and a
\* shown UI is the manager's current UI.
C31_OnlyCurrentShown ==
  /\ Cardinality({i \in Uis : shown[i]}) <= 1
  /\ \A i \in Uis : shown[i] => currentUi = i

C31_Witness ==
  /\ lastOp.op \in {"event", "switch", "resolve"}
  /\ lastOp.prev # NoUi
  /\ currentUi # NoUi
  /\ currentUi # lastOp.prev
  /\ StepsOf(lastOp.log, "hide", lastOp.prev) # {}
  /\ shown[currentUi]
  /\ ~shown[lastOp.prev]
  /\ configured[lastOp.prev]

\* C32 as stated: after any handler has returned or thrown, also one whose
\* configuration of a UI threw and also release(), the manager's current UI
\* is none or a UI whose instance manager is configured and not released.
C32_CurrentIsConfigured ==
  currentUi # NoUi => configured[currentUi] /\ ~released[currentUi]

\* the last handler's configuration of UI i threw the circular reference
\* error
ConfigureFailed(op, i) == StepsOf(op.log, "circular", i) # {}

\* C33 as stated: when the first configuration of the target UI throws
\* during a switch, the target does not become current (the UI that was
\* current stays current and shown), and a later switchToUiVariant to the
\* same target runs the configuration again.
C33_FailedSwitchKeepsCurrent ==
  [][/\ \A i \in Uis :
          ConfigureFailed(lastOp', i) => currentUi' = currentUi /\ shown' = shown
     /\ (/\ lastOp'.op = "switch"
         /\ lastOp'.target # NoUi
         /\ HasRepeat(lastOp'.target)
         /\ walked[lastOp'.target])
          => StepsOf(lastOp'.log, "configureComponent", lastOp'.target) # {}]_vars

\* C34 as stated: when the constructor throws because of the variant list
\* (more than one variant without condition, or one that is not last), the
\* real player holds no handler subscribed by the manager.
C34_FailedConstructionUnsubscribed ==
  (lastOp.op = "construct" /\ lastOp.error \in ValidationErrors) =>
    \A ev \in Events : host[ev] = <<>>

\* how often array holds item
Occurrences(array, item) == Cardinality({k \in 1..Len(array) : array[k] = item})

\* the callbacks a handler called, in the order of the calls
CallsOf(log) ==
  LET Called(e) == e.step = "callback"
      calls == SelectSeq(log, Called)
  IN [k \in 1..Len(calls) |-> calls[k].cb]

\* C35 as stated: one fireEventInUI calls every callback that was
\* subscribed for the event kind when the dispatch started exactly once per
\* subscription, also when a callback called during the dispatch
\* unsubscribes itself or another callback or subscribes a new one; a
\* callback subscribed during the dispatch is not called in it.
C35_DispatchOverSnapshot ==
  [][lastOp'.op = "fire" =>
       LET before == tables[lastOp'.target][lastOp'.event.type]
           calls == CallsOf(lastOp'.log)
       IN /\ \A k \in 1..Len(before) :
               Occurrences(calls, before[k]) = Occurrences(before, before[k])
          /\ \A k \in 1..Len(calls) : Occurrences(before, calls[k]) > 0]_vars

\* the steps of one kind in a handler's log, on whatever UI
StepsNamed(log, name) == {k \in 1..Len(log) : log[k].step = name}

\* C36: fireEventInUI on the relay of a UI calls only callbacks that were
\* subscribed through that relay, never the handlers the manager subscribed
\* through its own relay or the callbacks of another UI's relay; so the
\* replays of SourceLoaded and AdStarted in a UI run no further resolution
\* and no further config update: a handler dispatches onUiVariantResolve and
\* onUpdated at most once each.
C36_FireStaysInRelay ==
  /\ \A k \in StepsNamed(lastOp.log, "callback") :
       /\ lastOp.log[k].cb.owner = lastOp.log[k].ui
       /\ lastOp.log[k].cb \notin {UpdateConfigHandler, ResolveHandler}
  /\ Cardinality(StepsNamed(lastOp.log, "onUiVariantResolve")) <= 1
  /\ Cardinality(StepsNamed(lastOp.log, "onUpdated")) <= 1

C36_Witness ==
  /\ lastOp.op = "event"
  /\ lastOp.event.type = "adstarted"
  /\ source
  /\ currentUi # NoUi
  /\ tables[MgrRelay]["adstarted"] # <<>>
  /\ tables[MgrRelay]["sourceloaded"] # <<>>
  /\ SourceReplays(currentUi) # {}
  /\ \E k \in StepsNamed(lastOp.log, "callback") :
       /\ lastOp.log[k].ui = currentUi
       /\ lastOp.log[k].cb.name = "adStarted"
       /\ lastOp.log[k].data.type = "adstarted"
  /\ \E i \in Uis : i # currentUi /\ tables[i]["adstarted"] # <<>>

\* C37: a manager constructed with autoUiVariantResolve false runs one
\* resolution in its constructor (unless the variant list is rejected), and
\* afterwards no player event resolves, changes the current UI, or shows or
\* hides a UI.
C37_NoAutoResolveNoEventSwitch ==
  ~autoResolve =>
    /\ (lastOp.op = "construct" /\ lastOp.error \notin ValidationErrors) =>
         /\ lastOp.res.resolved
         /\ Cardinality(StepsNamed(lastOp.log, "onUiVariantResolve")) = 1
         /\ currentUi = lastOp.res.selected
    /\ lastOp.op = "event" =>
         /\ ~lastOp.res.resolved
         /\ currentUi = lastOp.prev
         /\ StepsNamed(lastOp.log, "show") = {}
         /\ StepsNamed(lastOp.log, "hide") = {}
         /\ StepsNamed(lastOp.log, "configureComponent") = {}

C37_Witness ==
  /\ ~autoResolve
  /\ lastOp.op = "event"
  /\ lastOp.event.type = "adstarted"
  /\ uiVariants = <<"isAd", Null>>
  /\ currentUi = 2
  /\ shown[2]
  /\ ~configured[1]

\* the ad properties of the context a resolution dispatches to the
\* subscribers of onUiVariantResolve: the defaults overwritten by what the
\* caller passed
ReportedAd(res) == Assign([isAd |-> FALSE, adClientType |-> Null], res.context)

\* C38 as stated: while an AdStarted event is stored, every resolution (of
\* an event, or a resolveUiVariant call without context properties)
\* reports isAd true and the client type of the stored event, and such a
\* resolveUiVariant call leaves an ad UI current.
C38_AdContextInEveryResolution ==
  (/\ lastOp.res.resolved
   /\ adStartedEvent # NoEvent
   /\ lastOp.op = "resolve" => lastOp.res.context = EmptyData)
    => /\ ReportedAd(lastOp.res).isAd
       /\ ReportedAd(lastOp.res).adClientType = adStartedEvent.clientType
       /\ (/\ lastOp.op = "resolve"
           /\ lastOp.prev # NoUi
           /\ uiVariants[lastOp.prev] = "isAd") => currentUi = lastOp.prev

\* the listeners of onConfigured the last handler called
ListenersCalled == StepsNamed(lastOp.log, "configuredListener")

\* C39 as stated: when the manager is released after a UI was configured
\* and before the frame callback of that UI ran, the callback calls no
\* listener of onConfigured, whether it subscribed before or after the
\* release.
C39_NoConfiguredAfterRelease ==
  (lastOp.op = "frame" /\ released[lastOp.target]) => ListenersCalled = {}

\* C40 as stated: popSettingsPanelPage undoes the last navigation: called
\* directly after a setActivePage(p) to a page other than the active one, it
\* restores the active page index and the navigation stack that
\* setActivePage started from; and after navigating from the root page to
\* p1 and on to p2, two pops make the root page active.
C40_PopUndoesNavigation ==
  [][lastOp'.op = "popSettingsPanelPage" =>
       /\ (/\ lastOp.op = "setActivePage"
           /\ IndexOf(GetPages, lastOp.kind) # lastOp.data.activePageIndex)
            => /\ activePageIndex' = lastOp.data.activePageIndex
               /\ navigationStack' = lastOp.data.navigationStack
       /\ (/\ lastOp.op = "popSettingsPanelPage"
           /\ lastOp.data.activePageIndex = 2
           /\ lastOp.data.navigationStack = <<"p1", "p2">>)
            => activePageIndex' = 0]_vars

====
